---- MODULE Spec2Model ----
(***************************************************************************)
(* A model of collate_project.py: the directory walk with its pruning and  *)
(* filtering rules, the table-of-contents loop, the load loop with its     *)
(* size / binary / read steps, the counters and the written document.      *)
(*                                                                         *)
(* A Python str is a sequence of one-character strings, so that suffix     *)
(* extraction, lower-casing and the ordering of paths are computed and not *)
(* assumed.  A path is the sequence of its components below the root.      *)
(***************************************************************************)
EXTENDS Integers, Sequences, FiniteSets, TLC

\* ------------------------------------------------------------ strings

UpperLetters == <<"A","B","C","D","E","F","G","H","I","J","K","L","M","N","O","P","Q","R","S","T","U","V","W","X","Y","Z">>
LowerLetters == <<"a","b","c","d","e","f","g","h","i","j","k","l","m","n","o","p","q","r","s","t","u","v","w","x","y","z">>
Digits == <<"0","1","2","3","4","5","6","7","8","9">>

IndexOf(s, c) == CHOOSE i \in 1..Len(s) : s[i] = c

Range(s) == {s[i] : i \in 1..Len(s)}

\* The characters the model's names are made of.
Alphabet ==
    Range(UpperLetters) \cup Range(LowerLetters) \cup Range(Digits) \cup {".", "/", "_"}

\* ord(c)
OrdTable ==
    [c \in Alphabet |->
        IF c \in Range(UpperLetters) THEN 64 + IndexOf(UpperLetters, c)
        ELSE IF c \in Range(LowerLetters) THEN 96 + IndexOf(LowerLetters, c)
        ELSE IF c \in Range(Digits) THEN 47 + IndexOf(Digits, c)
        ELSE IF c = "." THEN 46
        ELSE IF c = "/" THEN 47
        ELSE 95]

Ord(c) == OrdTable[c]

\* str.lower() on one character.
LowerTable ==
    [c \in Alphabet |->
        IF c \in Range(UpperLetters) THEN LowerLetters[IndexOf(UpperLetters, c)]
        ELSE c]

LowerChar(c) == LowerTable[c]

\* str.lower()
LowerStr(s) == [i \in 1..Len(s) |-> LowerChar(s[i])]

\* s < t for two str values: code point by code point, a proper prefix first.
RECURSIVE StrLess(_, _)
StrLess(s, t) ==
    IF t = <<>> THEN FALSE
    ELSE IF s = <<>> THEN TRUE
    ELSE IF Ord(Head(s)) # Ord(Head(t)) THEN Ord(Head(s)) < Ord(Head(t))
    ELSE StrLess(Tail(s), Tail(t))

\* str.startswith(".")
StartsWithDot(name) == Len(name) > 0 /\ name[1] = "."

\* str.rfind("."), one-based; 0 when there is no dot.
RFindDot(name) ==
    LET dots == {i \in 1..Len(name) : name[i] = "."}
    IN  IF dots = {} THEN 0 ELSE CHOOSE i \in dots : \A j \in dots : j <= i

\* PurePath.suffix of a path whose last component is name: the part from the
\* last dot on, unless that dot starts or ends the name.
Suffix(name) ==
    LET j == RFindDot(name)
    IN  IF j > 1 /\ j < Len(name) THEN SubSeq(name, j, Len(name)) ELSE <<>>

\* The resolved project root, as str.
RootStr == <<"/","W","/","P","r","o","j">>

RECURSIVE JoinParts(_)
JoinParts(parts) ==
    IF parts = <<>> THEN <<>>
    ELSE IF Len(parts) = 1 THEN parts[1]
    ELSE parts[1] \o <<"/">> \o JoinParts(Tail(parts))

\* str(path) of a path below the root; rel is path.relative_to(project_root).
RelStr(rel) == JoinParts(rel)

PathStr(rel) == RootStr \o <<"/">> \o RelStr(rel)

FileName(rel) == rel[Len(rel)]

\* ------------------------------------------------------ configuration

DEFAULT_EXCLUDED_DIRS ==
    { <<".","g","i","t">>, <<".","s","v","n">>, <<".","h","g">>, <<".","i","d","e","a">>, <<".","v","s">>, <<".","v","s","c","o","d","e">>, <<".","g","o","d","o","t">>,
      <<".","i","m","p","o","r","t">>, <<".","c","a","c","h","e">>, <<"t","a","r","g","e","t">>, <<"n","o","d","e","_","m","o","d","u","l","e","s">>, <<"d","i","s","t">>, <<"b","u","i","l","d">>,
      <<"o","u","t">>, <<"_","_","p","y","c","a","c","h","e","_","_">> }

DEFAULT_ALLOWED_EXTENSIONS ==
    { <<".","g","d">>, <<".","t","r","e","s">>, <<".","c","f","g">>, <<".","i","n","i">>, <<".","s","h","a","d","e","r">>, <<".","g","d","s","h","a","d","e","r">>,
      <<".","r","s">>, <<".","t","o","m","l">>, <<".","m","d">>,
      <<".","h">>, <<".","h","p","p">>, <<".","c">>, <<".","c","p","p">>, <<".","c","c">>, <<".","c","x","x">>,
      <<".","j","s","o","n">>, <<".","y","m","l">>, <<".","y","a","m","l">>, <<".","j","s">>, <<".","t","s">>, <<".","h","t","m","l">>, <<".","c","s","s">>,
      <<".","p","y">>, <<".","p","s","1">>, <<".","b","a","t">>, <<".","s","h">>, <<".","z","s","h">>,
      <<".","t","x","t">>, <<".","c","s","v">>, <<".","g","i","t","a","t","t","r","i","b","u","t","e","s">>, <<".","g","i","t","i","g","n","o","r","e">>, <<".","e","d","i","t","o","r","c","o","n","f","i","g">> }

\* extension -> code fence language tag, as pairs.
LANG_FROM_EXTENSION ==
    { <<<<".","g","d">>, <<"g","d","s","c","r","i","p","t">>>>, <<<<".","r","s">>, <<"r","u","s","t">>>>, <<<<".","t","o","m","l">>, <<"t","o","m","l">>>>,
      <<<<".","l","o","c","k">>, <<>>>>, <<<<".","m","d">>, <<"m","d">>>>, <<<<".","h">>, <<"c","p","p">>>>,
      <<<<".","h","p","p">>, <<"c","p","p">>>>, <<<<".","c">>, <<"c">>>>, <<<<".","c","p","p">>, <<"c","p","p">>>>,
      <<<<".","c","c">>, <<"c","p","p">>>>, <<<<".","c","x","x">>, <<"c","p","p">>>>, <<<<".","j","s","o","n">>, <<"j","s","o","n">>>>,
      <<<<".","y","m","l">>, <<"y","a","m","l">>>>, <<<<".","y","a","m","l">>, <<"y","a","m","l">>>>, <<<<".","j","s">>, <<"j","a","v","a","s","c","r","i","p","t">>>>,
      <<<<".","t","s">>, <<"t","y","p","e","s","c","r","i","p","t">>>>, <<<<".","h","t","m","l">>, <<"h","t","m","l">>>>, <<<<".","c","s","s">>, <<"c","s","s">>>>,
      <<<<".","p","y">>, <<"p","y","t","h","o","n">>>>, <<<<".","p","s","1">>, <<"p","o","w","e","r","s","h","e","l","l">>>>, <<<<".","b","a","t">>, <<"b","a","t">>>>,
      <<<<".","s","h">>, <<"b","a","s","h">>>>, <<<<".","z","s","h">>, <<"b","a","s","h">>>>, <<<<".","t","s","c","n">>, <<>>>>,
      <<<<".","t","r","e","s">>, <<>>>>, <<<<".","c","f","g">>, <<>>>>, <<<<".","i","n","i">>, <<>>>>,
      <<<<".","s","h","a","d","e","r">>, <<"g","l","s","l">>>>, <<<<".","g","d","s","h","a","d","e","r">>, <<"g","l","s","l">>>>, <<<<".","i","m","p","o","r","t">>, <<>>>>,
      <<<<".","t","x","t">>, <<>>>>, <<<<".","c","s","v">>, <<>>>>, <<<<".","g","i","t","a","t","t","r","i","b","u","t","e","s">>, <<>>>>,
      <<<<".","g","i","t","i","g","n","o","r","e">>, <<>>>>, <<<<".","e","d","i","t","o","r","c","o","n","f","i","g">>, <<>>>> }

\* The hidden names line 139 lets through.
HIDDEN_EXEMPT_SUFFIXES == { <<".","g","i","t","i","g","n","o","r","e">>, <<".","g","i","t","a","t","t","r","i","b","u","t","e","s">>, <<".","e","d","i","t","o","r","c","o","n","f","i","g">> }

\* is_probably_binary's default sample_bytes.
SAMPLE_BYTES == 8192

\* The default of --max-kb.
DEFAULT_MAX_KB == 512

\* ------------------------------------------------------ pure functions

Min(a, b) == IF a < b THEN a ELSE b

\* A file on disk: whether stat succeeds (exists), whether open succeeds
\* (readable), its size in bytes, the one-based offset of its first NUL byte
\* (0: none), the number of bytes b < 9 or 13 < b < 32 among its first
\* SAMPLE_BYTES bytes, the number of newlines that end it, and a tag naming
\* its text.
Missing ==
    [exists |-> FALSE, readable |-> FALSE, size |-> 0, nul |-> 0, ctrl |-> 0,
     nl |-> 0, tag |-> <<>>]

\* The chunk file_handle.read(sample_bytes) returns: its length, whether it
\* holds a NUL byte, its count of control bytes.
ReadChunk(d, sample_bytes) ==
    [len |-> Min(d.size, sample_bytes),
     hasNul |-> d.nul # 0 /\ d.nul <= Min(d.size, sample_bytes),
     control |-> Min(d.ctrl, Min(d.size, sample_bytes))]

CanOpen(d) == d.exists /\ d.readable

is_probably_binary_MutNoNul(d, sample_bytes) ==
    IF ~CanOpen(d) THEN TRUE
    ELSE LET chunk == ReadChunk(d, sample_bytes)
         IN  IF chunk.len = 0 THEN FALSE
             ELSE chunk.control * 100 > 30 * chunk.len

\* is_probably_binary: an open or read failure is "binary"; a NUL in the
\* chunk is; an empty chunk is not; else control_bytes / len(chunk) > 0.30.
is_probably_binary(d, sample_bytes) ==
    IF ~CanOpen(d) THEN TRUE
    ELSE LET chunk == ReadChunk(d, sample_bytes)
         IN  IF chunk.hasNul THEN TRUE
             ELSE IF chunk.len = 0 THEN FALSE
             ELSE chunk.control * 100 > 30 * chunk.len

\* infer_lang_from_extension: LANG_FROM_EXTENSION.get(suffix.lower(), "").
infer_lang_from_extension(rel) ==
    LET ext == LowerStr(Suffix(FileName(rel)))
        hits == {p \in LANG_FROM_EXTENSION : p[1] = ext}
    IN  IF hits = {} THEN <<>> ELSE (CHOOSE p \in hits : TRUE)[2]

should_include_file(rel, allowed_extensions) ==
    LowerStr(Suffix(FileName(rel))) \in allowed_extensions

\* Lines 128-135: the directory names os.walk is left to descend into.
PruneDirnamesMutHiddenOnly(dirnames, excluded_directories, include_hidden) ==
    LET Keep(directory_name) ==
            ~(~include_hidden /\ StartsWithDot(directory_name))
    IN  SelectSeq(dirnames, Keep)

PruneDirnames(dirnames, excluded_directories, include_hidden) ==
    LET Keep(directory_name) ==
            /\ directory_name \notin excluded_directories
            /\ ~(~include_hidden /\ StartsWithDot(directory_name))
    IN  SelectSeq(dirnames, Keep)

\* Line 139: the hidden-file test, on the suffix as it is (not lower-cased).
SkippedAsHidden(filename, include_hidden) ==
    /\ ~include_hidden
    /\ StartsWithDot(filename)
    /\ Suffix(filename) \notin HIDDEN_EXEMPT_SUFFIXES

\* Lines 137-142: the files of one directory that are collected, in listing order.
CollectFiles(current_path, filenames, allowed_extensions, include_hidden) ==
    LET Keep(filename) ==
            /\ ~SkippedAsHidden(filename, include_hidden)
            /\ should_include_file(current_path \o <<filename>>, allowed_extensions)
        kept == SelectSeq(filenames, Keep)
    IN  [i \in 1..Len(kept) |-> current_path \o <<kept[i]>>]

\* Line 144: the sort key.
SortKeyMutCaseSensitive(rel) == PathStr(rel)

SortKey(rel) == LowerStr(PathStr(rel))

\* Insert p after every element whose key is not greater: a stable insertion.
RECURSIVE InsertSorted(_, _)
InsertSorted(sorted, p) ==
    IF sorted = <<>> THEN <<p>>
    ELSE LET last == sorted[Len(sorted)]
         IN  IF StrLess(SortKey(p), SortKey(last))
             THEN InsertSorted(SubSeq(sorted, 1, Len(sorted) - 1), p) \o <<last>>
             ELSE sorted \o <<p>>

\* list.sort(key=...): the stable sort.
RECURSIVE SortPaths(_)
SortPaths(paths) ==
    IF paths = <<>> THEN <<>>
    ELSE InsertSorted(SortPaths(SubSeq(paths, 1, Len(paths) - 1)), paths[Len(paths)])

\* Lines 206-207.
ExcludedDirectories(extra_dirs) == DEFAULT_EXCLUDED_DIRS \cup Range(extra_dirs)

\* Lines 209-211.
AllowedExtensionsMutUnion(only_exts) ==
    DEFAULT_ALLOWED_EXTENSIONS \cup {LowerStr(ext) : ext \in Range(only_exts)}

AllowedExtensions(only_exts) ==
    IF only_exts # <<>> THEN {LowerStr(ext) : ext \in Range(only_exts)}
    ELSE DEFAULT_ALLOWED_EXTENSIONS

\* human_kilobytes: num_bytes / 1024 to one decimal, as tenths of a KB. The
\* quotient is exact in binary floating point, and a tie rounds to even.
human_kilobytes(num_bytes) ==
    LET q == (num_bytes * 10) \div 1024
        r == (num_bytes * 10) % 1024
    IN  IF r > 512 \/ (r = 512 /\ q % 2 = 1) THEN q + 1 ELSE q

\* ------------------------------------------------------ the document

\* One element of main's list `lines`: its kind k, the path or tag it names,
\* the number it prints and, for file content, the text it holds.
E(k, rel, n, text) == [k |-> k, rel |-> rel, n |-> n, text |-> text]

\* The text of an ordinary file, named by a number.
Raw(id) == <<E("raw", <<>>, id, <<>>)>>

RECURSIVE DecimalLen(_)
DecimalLen(n) == IF n < 10 THEN 1 ELSE 1 + DecimalLen(n \div 10)

\* The UTF-8 length of one element of `lines`.
Bytes(e) ==
    CASE e.k = "title" -> 28
      [] e.k = "root" -> 10 + Len(RootStr)
      [] e.k = "count" -> 47 + DecimalLen(e.n)
      [] e.k = "max" -> 29 + DecimalLen(e.n)
      [] e.k = "blank" -> 0
      [] e.k = "toc_heading" -> 20
      [] e.k = "toc" -> 10 + Len(RelStr(e.rel)) + DecimalLen(e.n \div 10) + 2
      [] e.k = "rule1" -> 5
      [] e.k = "file_heading" -> 19 + Len(RelStr(e.rel))
      [] e.k = "fence" -> 3 + Len(e.rel[1])
      [] e.k = "content" -> e.n
      [] e.k = "fence_end" -> 4
      [] e.k = "rule2" -> 4
      [] e.k = "included" -> 16 + DecimalLen(e.n)
      [] e.k = "too_large" -> 21 + DecimalLen(e.n)
      [] e.k = "binary" -> 27 + DecimalLen(e.n)
      [] OTHER -> 0

RECURSIVE SumBytes(_)
SumBytes(doc) == IF doc = <<>> THEN 0 ELSE Bytes(Head(doc)) + SumBytes(Tail(doc))

\* len("\n".join(lines).encode("utf-8"))
DocBytes(doc) == IF doc = <<>> THEN 0 ELSE SumBytes(doc) + Len(doc) - 1

\* Lines 225-231.
HeaderLines(count, max_kb) ==
    << E("title", <<>>, 0, <<>>), E("root", <<>>, 0, <<>>),
       E("count", <<>>, count, <<>>), E("max", <<>>, max_kb, <<>>),
       E("blank", <<>>, 0, <<>>), E("toc_heading", <<>>, 0, <<>>),
       E("blank", <<>>, 0, <<>>) >>

\* Lines 234-239: the bullet of one candidate, none when stat fails.
TocLinesMutAlways(rel, d) == <<E("toc", rel, human_kilobytes(d.size), <<>>)>>

TocLines(rel, d) ==
    IF d.exists THEN <<E("toc", rel, human_kilobytes(d.size), <<>>)>> ELSE <<>>

\* Lines 260-268: the section of an included file; content.rstrip("\n")
\* drops the newlines that end the text.
SectionLines(rel, d) ==
    << E("file_heading", rel, 0, <<>>),
       E("fence", <<infer_lang_from_extension(rel)>>, 0, <<>>),
       E("content", <<>>, d.size - d.nl, d.tag),
       E("fence_end", <<>>, 0, <<>>) >>

\* Lines 270-274.
FooterLines(inc, big, bin) ==
    << E("rule2", <<>>, 0, <<>>), E("included", <<>>, inc, <<>>),
       E("too_large", <<>>, big, <<>>), E("binary", <<>>, bin, <<>>),
       E("blank", <<>>, 0, <<>>) >>

\* Lines 250-256: the counter a candidate without content goes to.
SkipCounterMutUncounted(d, max_bytes) ==
    IF ~d.exists THEN "none"
    ELSE IF d.size > max_bytes THEN "size" ELSE "binary"

SkipCounter(d, max_bytes) ==
    IF ~d.exists THEN "binary"
    ELSE IF d.size > max_bytes THEN "size" ELSE "binary"

\* ------------------------------------------------------------- inputs

\* How many times the file system may change under a run, and how many
\* times the tool is run in a row.
MaxFsEvents == 2
MaxRuns == 2

File(size, nul, ctrl, nl, readable) ==
    [exists |-> TRUE, readable |-> readable, size |-> size, nul |-> nul,
     ctrl |-> ctrl, nl |-> nl, tag |-> Raw(size)]

TextSmall == File(256, 0, 0, 1, TRUE)
NulSmall == File(256, 10, 1, 1, TRUE)
Unreadable == File(256, 0, 0, 1, FALSE)
Over(max_bytes) == File(max_bytes + 1, 0, 0, 0, TRUE)

\* The files a tree may hold, for a limit of max_bytes.
FileKinds(max_bytes) ==
    { TextSmall, NulSmall, Unreadable, Over(max_bytes), Missing,
      File(0, 0, 0, 0, TRUE),
      File(max_bytes, 0, 0, 2, TRUE),
      File(max_bytes + 1, 1, 1, 0, TRUE),
      File(SAMPLE_BYTES + 808, SAMPLE_BYTES + 1, 0, 0, TRUE),
      File(10, 0, 4, 0, TRUE),
      File(10, 0, 3, 0, TRUE) }

\* What a file may become while main runs.
EventKinds(max_bytes) ==
    { Missing, TextSmall, NulSmall, Unreadable, Over(max_bytes) }

\* All orderings of all subsets of S with at most n names.
RECURSIVE Listings(_, _)
Listings(S, n) ==
    IF n = 0 THEN {<<>>}
    ELSE LET shorter == Listings(S, n - 1)
         IN  shorter \cup
             {l \o <<x>> : l \in {m \in shorter : Len(m) = n - 1}, x \in S}

Distinct(l) == \A i, j \in 1..Len(l) : i # j => l[i] # l[j]

\* The listings a directory with some of the files of S may have.
ListingsOf(S) == {l \in Listings(S, Cardinality(S)) : Distinct(l)}

RootNames == { <<"b",".","t","x","t">>, <<"A",".","t","x","t">>, <<"a",".","T","X","T">> }
DirNames == { <<"o","u","t">>, <<".","v","s">>, <<"s","r","c">>, <<".","d">>, <<"g","e","n">> }
InnerDirNames == { <<"o","u","t">>, <<"s","r","c">> }
OutputName == <<"p","r","o","j","e","c","t","_","c","o","n","t","e","x","t",".","m","d">>

\* A tree: the root lists rootFiles, two hidden files and the directory d1,
\* which lists two files and the directory d2, which lists two files.
ChainTree(rootFiles, d1, d2) ==
    [ls |->
        (<<>> :> [dirnames |-> <<d1>>,
                  filenames |-> rootFiles \o << <<".","g","i","t","i","g","n","o","r","e">>, <<".","e","n","v">> >>]) @@
        (<<d1>> :> [dirnames |-> <<d2>>,
                          filenames |-> << <<"x",".","r","s">>, <<"c",".","t","o","m","l">> >>]) @@
        (<<d1, d2>> :> [dirnames |-> <<>>,
                              filenames |-> << <<"X",".","R","S">>, <<".","a",".","g","i","t","i","g","n","o","r","e">> >>]),
     data |->
        [p \in {<<f>> : f \in Range(rootFiles)} \cup
               {<< <<".","g","i","t","i","g","n","o","r","e">> >>, << <<".","e","n","v">> >>} \cup
               {<<d1, <<"x",".","r","s">>>>, <<d1, <<"c",".","t","o","m","l">>>>,
                <<d1, d2, <<"X",".","R","S">>>>, <<d1, d2, <<".","a",".","g","i","t","i","g","n","o","r","e">>>>}
            |-> TextSmall]]

\* -------------------------------------------------------------- state

VARIABLES
    args,                  \* the parsed command line
    fs,                    \* the tree: ls (each directory's listing), data (each file)
    live,                  \* whether other processes change the tree under main
    events,                \* how many changes they have made
    invocations,           \* how many times the tool is run in a row
    run,                   \* the number of the current run
    pc,                    \* where main is
    status,                \* main's return value, -1 while it runs
    excluded_directories,
    allowed_extensions,
    maximum_bytes,
    todo,                  \* the directories os.walk has yet to yield
    collected_paths,
    lines,
    cursor,                \* the index of the loop at hand into collected_paths
    included_count,
    skipped_for_size,
    skipped_as_binary,
    listed,                \* the directories os.walk has listed
    walked,                \* collected_paths as the walk left it, before the sort
    log,                   \* per candidate: what each stat, open and read met
    written                \* the documents written so far, one per run

vars ==
    << args, fs, live, events, invocations, run, pc, status, excluded_directories,
       allowed_extensions, maximum_bytes, todo, collected_paths, lines, cursor,
       included_count, skipped_for_size, skipped_as_binary, listed, walked, log,
       written >>

NoLog ==
    [toc |-> "none", stat1 |-> "none", sample |-> "none", read |-> "none",
     restat |-> "none", outcome |-> "none"]

Args(root_exists, output_inside, max_kb, include_hidden, extra_dirs, only_exts) ==
    [root_exists |-> root_exists, output_inside |-> output_inside,
     max_kb |-> max_kb, include_hidden |-> include_hidden,
     extra_dirs |-> extra_dirs, only_exts |-> only_exts]

\* A root directory that lists the files of listing and nothing else.
FlatTree(listing, kinds) ==
    [ls |-> (<<>> :> [dirnames |-> <<>>, filenames |-> listing]),
     data |-> [p \in {<<listing[i]>> : i \in 1..Len(listing)} |->
                  kinds[CHOOSE i \in 1..Len(listing) : listing[i] = p[1]]]]

ProcessStart ==
    /\ run = 1
    /\ pc = "start"
    /\ status = -1
    /\ events = 0
    /\ excluded_directories = {}
    /\ allowed_extensions = {}
    /\ maximum_bytes = 0
    /\ todo = <<>>
    /\ collected_paths = <<>>
    /\ lines = <<>>
    /\ cursor = 1
    /\ included_count = 0
    /\ skipped_for_size = 0
    /\ skipped_as_binary = 0
    /\ listed = {}
    /\ walked = <<>>
    /\ log = <<>>
    /\ written = <<>>

\* Trees of three levels under every policy; the tree does not change.
InitWalk ==
    /\ \E include_hidden \in BOOLEAN,
          extra_dirs \in {<<>>, << <<"g","e","n">> >>},
          only_exts \in {<<>>, << <<".","r","s">> >>, << <<".","T","X","T">>, <<".","t","o","m","l">> >>} :
          args = Args(TRUE, FALSE, 16, include_hidden, extra_dirs, only_exts)
    /\ \E rootFiles \in ListingsOf(RootNames),
          d1 \in DirNames, d2 \in InnerDirNames :
          fs = ChainTree(rootFiles, d1, d2)
    /\ live = FALSE
    /\ invocations = 1
    /\ ProcessStart

\* Two candidates of every kind of file; the tree does not change.
InitLoad ==
    /\ \E max_kb \in {1, 16} :
          /\ args = Args(TRUE, FALSE, max_kb, FALSE, <<>>, <<>>)
          /\ \E k1, k2 \in FileKinds(max_kb * 1024) :
                fs = FlatTree(<< <<"a",".","p","y">>, <<"B",".","m","d">> >>, <<k1, k2>>)
    /\ live = FALSE
    /\ invocations = 1
    /\ ProcessStart

\* Two candidates in a tree that other processes change while main runs.
InitRace ==
    /\ args = Args(TRUE, FALSE, 16, FALSE, <<>>, <<>>)
    /\ \E k1, k2 \in EventKinds(16 * 1024) :
          fs = FlatTree(<< <<"a",".","p","y">>, <<"B",".","m","d">> >>, <<k1, k2>>)
    /\ live = TRUE
    /\ invocations = 1
    /\ ProcessStart

\* The tool run several times in a row on a tree nothing else changes, with
\* the output path inside or outside the root.
InitTwice ==
    /\ \E root_exists \in BOOLEAN, output_inside \in BOOLEAN,
          max_kb \in {1, DEFAULT_MAX_KB},
          only_exts \in {<<>>, << <<".","p","y">> >>} :
          /\ args = Args(root_exists, output_inside, max_kb, FALSE, <<>>, only_exts)
          /\ \E k \in {TextSmall, NulSmall, Over(max_kb * 1024)} :
                \/ fs = FlatTree(<< <<"a",".","p","y">> >>, <<k>>)
                \/ fs = FlatTree(<< OutputName, <<"a",".","p","y">> >>, <<TextSmall, k>>)
    /\ live = FALSE
    /\ invocations \in 1..MaxRuns
    /\ ProcessStart

Init == InitWalk \/ InitLoad \/ InitRace \/ InitTwice

\* ------------------------------------------------------------ actions

Candidate == collected_paths[cursor]

Logged(field, value) == [log EXCEPT ![cursor][field] = value]

\* Lines 202-215: the settings, and the check of the root.
Start ==
    /\ pc = "start"
    /\ excluded_directories' = ExcludedDirectories(args.extra_dirs)
    /\ allowed_extensions' = AllowedExtensions(args.only_exts)
    /\ maximum_bytes' = args.max_kb * 1024
    /\ IF args.root_exists
       THEN /\ pc' = "walk"
            /\ todo' = << <<>> >>
            /\ status' = status
       ELSE /\ pc' = "exit"
            /\ todo' = todo
            /\ status' = 1
    /\ UNCHANGED << args, fs, live, events, invocations, run, collected_paths, lines,
                    cursor, included_count, skipped_for_size, skipped_as_binary,
                    listed, walked, log, written >>

\* Lines 125-142: os.walk yields one directory; its listing is pruned and
\* its files are filtered.
WalkDir ==
    /\ pc = "walk"
    /\ todo # <<>>
    /\ LET current_path == Head(todo)
           entry == fs.ls[current_path]
           pruned == PruneDirnames(entry.dirnames, excluded_directories,
                                   args.include_hidden)
       IN  /\ listed' = listed \cup {current_path}
           /\ todo' = [i \in 1..Len(pruned) |-> current_path \o <<pruned[i]>>]
                          \o Tail(todo)
           /\ collected_paths' = collected_paths \o
                  CollectFiles(current_path, entry.filenames, allowed_extensions,
                               args.include_hidden)
    /\ UNCHANGED << args, fs, live, events, invocations, run, pc, status,
                    excluded_directories, allowed_extensions, maximum_bytes, lines,
                    cursor, included_count, skipped_for_size, skipped_as_binary,
                    walked, log, written >>

\* Lines 144-145 and 224-231: the sort, the return, and the header.
SortAndHeader ==
    /\ pc = "walk"
    /\ todo = <<>>
    /\ walked' = collected_paths
    /\ collected_paths' = SortPaths(collected_paths)
    /\ lines' = HeaderLines(Len(collected_paths), args.max_kb)
    /\ log' = [i \in 1..Len(collected_paths) |-> NoLog]
    /\ cursor' = 1
    /\ pc' = "toc"
    /\ UNCHANGED << args, fs, live, events, invocations, run, status,
                    excluded_directories, allowed_extensions, maximum_bytes, todo,
                    included_count, skipped_for_size, skipped_as_binary, listed,
                    written >>

\* Lines 233-239: one round of the table-of-contents loop.
TocStep ==
    /\ pc = "toc"
    /\ cursor <= Len(collected_paths)
    /\ lines' = lines \o TocLines(Candidate, fs.data[Candidate])
    /\ log' = Logged("toc", IF fs.data[Candidate].exists THEN "ok" ELSE "fail")
    /\ cursor' = cursor + 1
    /\ UNCHANGED << args, fs, live, events, invocations, run, pc, status,
                    excluded_directories, allowed_extensions, maximum_bytes, todo,
                    collected_paths, included_count, skipped_for_size,
                    skipped_as_binary, listed, walked, written >>

\* Lines 240-244: the rule after the table, and the counters.
TocEnd ==
    /\ pc = "toc"
    /\ cursor > Len(collected_paths)
    /\ lines' = Append(lines, E("rule1", <<>>, 0, <<>>))
    /\ included_count' = 0
    /\ skipped_for_size' = 0
    /\ skipped_as_binary' = 0
    /\ cursor' = 1
    /\ pc' = "load"
    /\ UNCHANGED << args, fs, live, events, invocations, run, status,
                    excluded_directories, allowed_extensions, maximum_bytes, todo,
                    collected_paths, listed, walked, log, written >>

\* Lines 246-248 and 149-151: read_text_safely's stat and size test.
LoadStat ==
    /\ pc = "load"
    /\ cursor <= Len(collected_paths)
    /\ LET d == fs.data[Candidate]
       IN  IF ~d.exists
           THEN /\ log' = Logged("stat1", "fail")
                /\ pc' = "restat"
           ELSE IF d.size > maximum_bytes
           THEN /\ log' = Logged("stat1", "big")
                /\ pc' = "restat"
           ELSE /\ log' = Logged("stat1", "ok")
                /\ pc' = "sample"
    /\ UNCHANGED << args, fs, live, events, invocations, run, status,
                    excluded_directories, allowed_extensions, maximum_bytes, todo,
                    collected_paths, lines, cursor, included_count, skipped_for_size,
                    skipped_as_binary, listed, walked, written >>

\* What the detector's open and read met.
SampleSeen(d) ==
    IF ~CanOpen(d) THEN "fail"
    ELSE IF ReadChunk(d, SAMPLE_BYTES).hasNul THEN "nul"
    ELSE "clean"

\* Lines 152-153 and 96-108: the binary detector.
LoadSample ==
    /\ pc = "sample"
    /\ LET d == fs.data[Candidate]
       IN  /\ log' = Logged("sample", SampleSeen(d))
           /\ pc' = IF is_probably_binary(d, SAMPLE_BYTES) THEN "restat" ELSE "read"
    /\ UNCHANGED << args, fs, live, events, invocations, run, status,
                    excluded_directories, allowed_extensions, maximum_bytes, todo,
                    collected_paths, lines, cursor, included_count, skipped_for_size,
                    skipped_as_binary, listed, walked, written >>

\* Lines 154-156 and 259-268: the full read and, when it succeeds, the
\* section of the file.
LoadRead ==
    /\ pc = "read"
    /\ LET d == fs.data[Candidate]
       IN  IF CanOpen(d)
           THEN /\ included_count' = included_count + 1
                /\ lines' = lines \o SectionLines(Candidate, d)
                /\ log' = [log EXCEPT ![cursor].read = "ok",
                                      ![cursor].outcome = "included"]
                /\ cursor' = cursor + 1
                /\ pc' = "load"
           ELSE /\ log' = Logged("read", "fail")
                /\ pc' = "restat"
                /\ UNCHANGED << included_count, lines, cursor >>
    /\ UNCHANGED << args, fs, live, events, invocations, run, status,
                    excluded_directories, allowed_extensions, maximum_bytes, todo,
                    collected_paths, skipped_for_size, skipped_as_binary, listed,
                    walked, written >>

\* What main's second stat met.
RestatSeen(d, max_bytes) ==
    IF ~d.exists THEN "fail" ELSE IF d.size > max_bytes THEN "big" ELSE "small"

\* Lines 249-257: a candidate without content is counted by a second stat.
Restat ==
    /\ pc = "restat"
    /\ LET d == fs.data[Candidate]
           counter == SkipCounter(d, maximum_bytes)
       IN  /\ skipped_for_size' = skipped_for_size + (IF counter = "size" THEN 1 ELSE 0)
           /\ skipped_as_binary' =
                  skipped_as_binary + (IF counter = "binary" THEN 1 ELSE 0)
           /\ log' = [log EXCEPT ![cursor].restat = RestatSeen(d, maximum_bytes),
                                 ![cursor].outcome = counter]
    /\ cursor' = cursor + 1
    /\ pc' = "load"
    /\ UNCHANGED << args, fs, live, events, invocations, run, status,
                    excluded_directories, allowed_extensions, maximum_bytes, todo,
                    collected_paths, lines, included_count, listed, walked, written >>

\* The tree after write_text(doc) to the output path, when that path is the
\* file OutputName of the root.
WriteFile(tree, doc) ==
    LET rootls == tree.ls[<<>>]
        file == [exists |-> TRUE, readable |-> TRUE, size |-> DocBytes(doc),
                 nul |-> 0, ctrl |-> 0, nl |-> 1, tag |-> doc]
    IN  [ls |-> [tree.ls EXCEPT ![<<>>].filenames =
                    IF OutputName \in Range(rootls.filenames)
                    THEN rootls.filenames
                    ELSE Append(rootls.filenames, OutputName)],
         data |-> (<<OutputName>> :> file) @@ tree.data]

\* Lines 270-278: the footer, the write and the return.
Finish ==
    /\ pc = "load"
    /\ cursor > Len(collected_paths)
    /\ lines' = lines \o FooterLines(included_count, skipped_for_size,
                                     skipped_as_binary)
    /\ written' = Append(written, lines')
    /\ fs' = IF args.output_inside THEN WriteFile(fs, lines') ELSE fs
    /\ status' = 0
    /\ pc' = "done"
    /\ UNCHANGED << args, live, events, invocations, run, excluded_directories,
                    allowed_extensions, maximum_bytes, todo, collected_paths, cursor,
                    included_count, skipped_for_size, skipped_as_binary, listed,
                    walked, log >>

\* The tool is started again, as a new process, on the tree as it now is.
Rerun ==
    /\ pc \in {"done", "exit"}
    /\ run < invocations
    /\ run' = run + 1
    /\ pc' = "start"
    /\ status' = -1
    /\ events' = 0
    /\ excluded_directories' = {}
    /\ allowed_extensions' = {}
    /\ maximum_bytes' = 0
    /\ todo' = <<>>
    /\ collected_paths' = <<>>
    /\ lines' = <<>>
    /\ cursor' = 1
    /\ included_count' = 0
    /\ skipped_for_size' = 0
    /\ skipped_as_binary' = 0
    /\ listed' = {}
    /\ walked' = <<>>
    /\ log' = <<>>
    /\ UNCHANGED << args, fs, live, invocations, written >>

\* Another process replaces, removes, resizes or locks the file main is about
\* to stat or open.  A change to any other candidate has the effect of the
\* same change made just before main next reaches that candidate.
FsEvent ==
    /\ live
    /\ events < MaxFsEvents
    /\ pc \in {"toc", "load", "sample", "read", "restat"}
    /\ cursor <= Len(collected_paths)
    /\ \E d \in EventKinds(maximum_bytes) :
          /\ d # fs.data[Candidate]
          /\ fs' = [fs EXCEPT !.data[Candidate] = d]
    /\ events' = events + 1
    /\ UNCHANGED << args, live, invocations, run, pc, status, excluded_directories,
                    allowed_extensions, maximum_bytes, todo, collected_paths, lines,
                    cursor, included_count, skipped_for_size, skipped_as_binary,
                    listed, walked, log, written >>

Next ==
    \/ Start
    \/ WalkDir
    \/ SortAndHeader
    \/ TocStep
    \/ TocEnd
    \/ LoadStat
    \/ LoadSample
    \/ LoadRead
    \/ Restat
    \/ Finish
    \/ Rerun
    \/ FsEvent

Spec == Init /\ [][Next]_vars

\* ------------------------------------------------------------- claims

Candidates == 1..Len(collected_paths)

AfterSort == pc \in {"toc", "load", "sample", "read", "restat", "done"}

Position(seq, x) == CHOOSE i \in 1..Len(seq) : seq[i] = x

HasSection(i) ==
    \E j \in 1..Len(lines) :
        lines[j].k = "file_heading" /\ lines[j].rel = collected_paths[i]

HasBullet(i) ==
    \E j \in 1..Len(lines) : lines[j].k = "toc" /\ lines[j].rel = collected_paths[i]

CountOutcome(o) == Cardinality({i \in DOMAIN log : log[i].outcome = o})

\* The policy as the command line gives it.
ArgExcluded == DEFAULT_EXCLUDED_DIRS \cup Range(args.extra_dirs)

ArgAllowed ==
    IF args.only_exts = <<>> THEN DEFAULT_ALLOWED_EXTENSIONS
    ELSE {LowerStr(args.only_exts[i]) : i \in 1..Len(args.only_exts)}

\* C1: when the document is written, the three counters add up to the number
\* of candidates, which is the count the header prints; every candidate went
\* to exactly one counter, and in the load loop the counters add up to the
\* number of candidates already passed, whatever the file system did.
C1_CountersAddUp ==
    /\ pc \in {"load", "sample", "read", "restat"} =>
          included_count + skipped_for_size + skipped_as_binary = cursor - 1
    /\ pc = "done" =>
          /\ included_count + skipped_for_size + skipped_as_binary
                = Len(collected_paths)
          /\ lines[3] = E("count", <<>>, Len(collected_paths), <<>>)
          /\ lines[Len(lines) - 3].n + lines[Len(lines) - 2].n
                + lines[Len(lines) - 1].n = lines[3].n
          /\ \A i \in Candidates : log[i].outcome \in {"included", "size", "binary"}
          /\ included_count = CountOutcome("included")
          /\ skipped_for_size = CountOutcome("size")
          /\ skipped_as_binary = CountOutcome("binary")

\* A run under a changing file system in which a second stat failed and
\* another candidate was included.
C1_Witness ==
    /\ pc = "done"
    /\ live
    /\ events > 0
    /\ \E i, j \in Candidates :
          log[i].restat = "fail" /\ log[j].outcome = "included"

\* C2 (as claimed): with includeHidden false and the default extensions, a
\* file named .gitignore in a directory the walk lists is a candidate and a
\* file named .env there is not.
C2_GitignoreIsCandidate ==
    (AfterSort /\ pc # "done" /\ ~args.include_hidden /\ args.only_exts = <<>>) =>
        \A p \in DOMAIN fs.data :
            SubSeq(p, 1, Len(p) - 1) \in listed =>
                /\ FileName(p) = <<".","g","i","t","i","g","n","o","r","e">> => p \in Range(collected_paths)
                /\ FileName(p) = <<".","e","n","v">> => p \notin Range(collected_paths)

UnderExcluded(p, n) == \E i \in 1..n : p[i] \in ArgExcluded

\* C3: no directory whose name, or the name of a directory above it below the
\* root, is excluded is ever listed or queued by the walk, and no file below
\* such a directory is ever a candidate, with includeHidden true or false.
C3_ExcludedNeverEntered ==
    /\ \A d \in listed : ~UnderExcluded(d, Len(d))
    /\ \A i \in 1..Len(todo) : ~UnderExcluded(todo[i], Len(todo[i]))
    /\ \A i \in Candidates :
          ~UnderExcluded(collected_paths[i], Len(collected_paths[i]) - 1)

\* A finished walk with includeHidden true that listed src and not src/out,
\* which holds files with allowed extensions.
C3_Witness ==
    /\ pc = "done"
    /\ args.include_hidden
    /\ << <<"s","r","c">> >> \in listed
    /\ << <<"s","r","c">>, <<"o","u","t">> >> \in DOMAIN fs.ls
    /\ << <<"s","r","c">>, <<"o","u","t">> >> \notin listed
    /\ << <<"s","r","c">>, <<"o","u","t">>, <<"X",".","R","S">> >> \in DOMAIN fs.data
    /\ Len(collected_paths) > 0

\* C4 (as claimed): two runs in a row on a tree nothing else changes, with
\* the same options, write the same document.
C4_RunsAgree ==
    (~live /\ Len(written) >= 2) => written[2] = written[1]

\* C5 (as claimed): a candidate whose size exceeds maxBytes at the loader's
\* check is not opened by the detector or by the full read, has no section,
\* and is counted as too large.
C5_OversizeCountedTooLarge ==
    \A i \in DOMAIN log :
        (log[i].stat1 = "big" /\ log[i].outcome # "none") =>
            /\ log[i].sample = "none"
            /\ log[i].read = "none"
            /\ ~HasSection(i)
            /\ log[i].outcome = "size"

NulInSample(d) == d.exists /\ d.nul # 0 /\ d.nul <= SAMPLE_BYTES /\ d.nul <= d.size

\* C6 (as claimed): in a run during which no file changes, every candidate
\* with a NUL byte among its first 8192 bytes is counted as binary and has no
\* section, whatever its size.
C6_NulCountedBinary ==
    (pc = "done" /\ events = 0) =>
        \A i \in Candidates :
            NulInSample(fs.data[collected_paths[i]]) =>
                log[i].outcome = "binary" /\ ~HasSection(i)

\* C6 (amended): a candidate whose sample, read by the detector, holds a NUL
\* byte is never read in full and has no section; it is counted as binary,
\* except that it is counted as too large when main's second stat finds it
\* larger than maxBytes.  A candidate larger than maxBytes at the loader's
\* check is not sampled.  In a run during which no file changes, a readable
\* candidate of at most maxBytes with a NUL byte among its first 8192 bytes
\* is sampled and counted as binary.
C6_NulSampleExcluded ==
    /\ \A i \in DOMAIN log :
          /\ (log[i].sample = "nul" /\ log[i].outcome # "none") =>
                /\ log[i].stat1 = "ok"
                /\ log[i].read = "none"
                /\ ~HasSection(i)
                /\ log[i].outcome =
                      (IF log[i].restat = "big" THEN "size" ELSE "binary")
          /\ log[i].stat1 = "big" => log[i].sample = "none"
    /\ (pc = "done" /\ events = 0) =>
          \A i \in Candidates :
              LET d == fs.data[collected_paths[i]]
              IN  (NulInSample(d) /\ d.readable /\ d.size <= args.max_kb * 1024) =>
                      log[i].sample = "nul" /\ log[i].outcome = "binary"

\* A finished run in which a candidate with an allowed extension was sampled,
\* held a NUL byte, got no section and was counted as binary.
C6_Witness ==
    /\ pc = "done"
    /\ \E i \in Candidates :
          /\ log[i].sample = "nul"
          /\ log[i].outcome = "binary"
          /\ ~HasSection(i)
          /\ should_include_file(collected_paths[i], DEFAULT_ALLOWED_EXTENSIONS)

\* The sort key, as the claim states it.
FoldedPath(p) == LowerStr(RootStr \o <<"/">> \o JoinParts(p))

\* The rules of the walk, as the claims state them.
PassesRules(p) ==
    /\ \A i \in 1..(Len(p) - 1) :
          /\ p[i] \notin ArgExcluded
          /\ args.include_hidden \/ p[i][1] # "."
    /\ \/ args.include_hidden
       \/ FileName(p)[1] # "."
       \/ Suffix(FileName(p)) \in HIDDEN_EXEMPT_SUFFIXES
    /\ LowerStr(Suffix(FileName(p))) \in ArgAllowed

\* C7: the sorted list holds each file that passed directory pruning, the
\* hidden-file rule and the extension rule exactly once, it is a permutation
\* of the list the walk produced, it is ordered non-decreasingly by the
\* lower-cased full path, and candidates with equal lower-cased paths keep
\* the order of the traversal.
C7_SortedStablePermutation ==
    (AfterSort /\ pc # "done") =>
        /\ Range(collected_paths) = {p \in DOMAIN fs.data : PassesRules(p)}
        /\ Len(collected_paths) = Cardinality(Range(collected_paths))
        /\ Range(collected_paths) = Range(walked)
        /\ Len(collected_paths) = Len(walked)
        /\ \A i, j \in Candidates :
              i < j =>
                  /\ ~StrLess(FoldedPath(collected_paths[j]),
                              FoldedPath(collected_paths[i]))
                  /\ FoldedPath(collected_paths[i]) = FoldedPath(collected_paths[j])
                        => Position(walked, collected_paths[i])
                              < Position(walked, collected_paths[j])

\* The walk met b.txt, a.TXT, A.txt in this order and the sort put a.TXT and
\* A.txt, in the order of the traversal, before b.txt.
C7_Witness ==
    /\ pc = "toc"
    /\ Len(walked) >= 3
    /\ walked[1] = << <<"b",".","t","x","t">> >>
    /\ walked[2] = << <<"a",".","T","X","T">> >>
    /\ walked[3] = << <<"A",".","t","x","t">> >>
    /\ collected_paths[1] = << <<"a",".","T","X","T">> >>
    /\ collected_paths[2] = << <<"A",".","t","x","t">> >>
    /\ collected_paths[3] = << <<"b",".","t","x","t">> >>

\* C8: with a non-empty --only-exts the allowed set is that list lower-cased
\* and holds no default the list does not name, without one it is the default
\* set; the excluded set is the default set with --extra-dirs added; every
\* candidate's lower-cased extension is in the allowed set, so with [".rs"]
\* no .toml file is a candidate.
C8_OverrideReplacesDefaults ==
    pc # "start" =>
        /\ allowed_extensions = ArgAllowed
        /\ args.only_exts # <<>> =>
              \A x \in DEFAULT_ALLOWED_EXTENSIONS :
                  x \in allowed_extensions =>
                      \E i \in 1..Len(args.only_exts) : LowerStr(args.only_exts[i]) = x
        /\ excluded_directories = ArgExcluded
        /\ \A i \in Candidates :
              LowerStr(Suffix(FileName(collected_paths[i]))) \in ArgAllowed
        /\ args.only_exts = << <<".","r","s">> >> =>
              \A i \in Candidates :
                  LowerStr(Suffix(FileName(collected_paths[i]))) # <<".","t","o","m","l">>

\* A finished run with --only-exts .rs over a tree whose listed directory
\* src holds c.toml and x.rs: x.rs is a candidate.
C8_Witness ==
    /\ pc = "done"
    /\ args.only_exts = << <<".","r","s">> >>
    /\ << <<"s","r","c">> >> \in listed
    /\ << <<"s","r","c">>, <<"c",".","t","o","m","l">> >> \in DOMAIN fs.data
    /\ << <<"s","r","c">>, <<"x",".","r","s">> >> \in Range(collected_paths)

\* C9 (as claimed): the run ends with success, and a candidate for which a
\* stat, an open or a read failed in the load loop is counted as binary.
C9_FailureCountedBinary ==
    pc = "done" =>
        /\ status = 0
        /\ \A i \in Candidates :
              (\/ log[i].stat1 = "fail"
               \/ log[i].sample = "fail"
               \/ log[i].read = "fail"
               \/ log[i].restat = "fail") => log[i].outcome = "binary"

TocRels ==
    LET IsToc(e) == e.k = "toc"
        bullets == SelectSeq(lines, IsToc)
    IN  [i \in 1..Len(bullets) |-> bullets[i].rel]

SectionRels ==
    LET IsHeading(e) == e.k = "file_heading"
        headings == SelectSeq(lines, IsHeading)
    IN  [i \in 1..Len(headings) |-> headings[i].rel]

StatOkInToc ==
    LET Ok(p) == log[Position(collected_paths, p)].toc = "ok"
    IN  SelectSeq(collected_paths, Ok)

IncludedPaths ==
    LET Inc(p) == log[Position(collected_paths, p)].outcome = "included"
    IN  SelectSeq(collected_paths, Inc)

BulletsBeforeSections ==
    \A i, j \in 1..Len(lines) :
        (lines[i].k = "toc" /\ lines[j].k = "file_heading") => i < j

\* C10 (as claimed): the table of contents lists the candidates whose size
\* lookup succeeded, the body holds the included candidates in the same
\* order, the bullets precede the sections, and every file with a section has
\* a bullet.
C10_EverySectionHasBullet ==
    pc = "done" =>
        /\ TocRels = StatOkInToc
        /\ SectionRels = IncludedPaths
        /\ BulletsBeforeSections
        /\ \A i \in Candidates : HasSection(i) => HasBullet(i)

\* C10 (amended): the table of contents lists, in candidate order, exactly
\* the candidates whose size lookup succeeded in the table-of-contents loop,
\* whatever their later outcome; the body holds, in candidate order, exactly
\* the included candidates; every bullet precedes every section; a file with
\* a section has a bullet unless its size lookup failed in that loop.
C10_TocAndBodyOrder ==
    pc = "done" =>
        /\ TocRels = StatOkInToc
        /\ SectionRels = IncludedPaths
        /\ BulletsBeforeSections
        /\ \A i \in Candidates :
              /\ HasBullet(i) <=> log[i].toc = "ok"
              /\ HasSection(i) <=> log[i].outcome = "included"
              /\ (HasSection(i) /\ ~HasBullet(i)) => log[i].toc = "fail"

\* A written document with a section for a file that has no bullet, and a
\* bullet for a file that has no section.
C10_Witness ==
    /\ pc = "done"
    /\ \E i, j \in Candidates :
          /\ HasSection(i) /\ ~HasBullet(i)
          /\ HasBullet(j) /\ ~HasSection(j)

====
